---- MODULE Spec2Model ----
(***************************************************************************)
(* The oracle lifecycle coordinator of defillama-answerer: one update      *)
(* dispatcher (Listener) per chain, the acknowledgement tasks it spawns    *)
(* for the candidates of a creation log, and the two tables of the durable *)
(* store (active_oracles, snapshots).                                      *)
(***************************************************************************)
EXTENDS Integers, Sequences, FiniteSets, Bags, TLC

VARIABLES
    scanning_past,   \* Listener.scanning_past, per chain
    checkpoint,      \* snapshots table: chain id -> block number (NoCheckpoint: no row)
    active_oracles,  \* active_oracles table: a bag of rows
    pc,              \* where each chain's on_update is: idle, join, sweep or checkpoint
    tasks,           \* per chain, the JoinSet: the tasks not joined yet (a bag)
    pinning,         \* web3_storage_http_client is Some (fixed by the configuration)
    new_block,       \* per chain, the block number of the NewBlock being handled
    updates,         \* number of updates delivered so far, all chains
    store_call,      \* the last call made on the store interface alone (StoreSpec)
    top_level,       \* main's JoinSet: the state of each top-level task
    process          \* whether main is still waiting or has returned

vars == <<scanning_past, checkpoint, active_oracles, pc, tasks, pinning,
          new_block, updates, store_call, top_level, process>>

\* What the listeners and their tasks never touch.
main_vars == <<top_level, process>>

(* ------------------------------ bounds --------------------------------- *)

MaxBlock == 2
MaxOracles == 2
MaxUpdates == 3

(* ----------------------------- input sets ------------------------------ *)

Chains == {10, 20}
Addresses == {"A", "B"}
Blocks == 1..MaxBlock
Progress == {0, 50, 100}
Templates == {7, 8}
DbOutcomes == {"ok", "no_connection", "error"}

\* The tasks main spawns: scanner::scan for each chain, and api::serve.
TopLevel == {<<"scan", c>> : c \in Chains} \cup {<<"serve", 0>>}

\* How a top-level task can stop: by returning Ok, by returning an error, by
\* panicking.
Exits == {"returned_ok", "returned_err", "panicked"}

\* Snapshot::get_for_chain_id finds no row for the chain.
NoCheckpoint == -1

\* Listener.template_id, the chain's configured target template.
TemplateId == 7

Range(s) == {s[i] : i \in DOMAIN s}

(* ------------------------------ the store ------------------------------ *)

\* What the chain holds for an oracle contract: both are immutable there.
SpecificationCid(chain_id, address) == <<"cid", chain_id, address>>
MeasurementTimestamp(address) == IF address = "A" THEN 1 ELSE 2

\* The document behind a content identifier.
Document(cid) == <<"doc", cid>>

Row(chain_id, address) ==
    [address |-> address, chain_id |-> chain_id,
     specification |-> Document(SpecificationCid(chain_id, address)),
     measurement_timestamp |-> MeasurementTimestamp(address)]

Rows == {Row(c, a) : c \in Chains, a \in Addresses}

\* A plausible slip: the table has no primary key, every insert succeeds.
ActiveOracleCreate_NoKey(rows, row) ==
    [ok |-> TRUE, rows |-> rows (+) SetToBag({row})]

\* ActiveOracle::create: an insert; the table's primary key is the address
\* (ActiveOracle::delete finds a row by `find(&self.address)`), so a second row
\* with the same address is refused whatever its chain.
ActiveOracleCreate(rows, row) ==
    IF \E r \in BagToSet(rows) : r.address = row.address
    THEN [ok |-> FALSE, rows |-> rows]
    ELSE [ok |-> TRUE, rows |-> rows (+) SetToBag({row})]

\* A plausible slip: the rows are found by the chain id instead of the address.
ActiveOracleDelete_ByChain(rows, self) ==
    [r \in {q \in BagToSet(rows) : q.chain_id # self.chain_id} |-> rows[r]]

\* ActiveOracle::delete: deletes the row found by the primary key, the address;
\* deleting no row is a success.
ActiveOracleDelete(rows, self) ==
    [r \in {q \in BagToSet(rows) : q.address # self.address} |-> rows[r]]

\* ActiveOracle::get_all_for_chain_id
GetAllForChainId(rows, chain_id) ==
    {r \in BagToSet(rows) : r.chain_id = chain_id}

\* A plausible slip: the upsert writes the block after the one it was given.
SnapshotUpdate_OffByOne(snapshots, chain_id, block_number) ==
    [snapshots EXCEPT ![chain_id] = block_number + 1]

\* A plausible slip: the upsert writes the block before the one it was given.
SnapshotUpdate_OneBelow(snapshots, chain_id, block_number) ==
    [snapshots EXCEPT ![chain_id] = block_number - 1]

\* Snapshot::update: insert, on conflict overwrite the block number.
SnapshotUpdate(snapshots, chain_id, block_number) ==
    [snapshots EXCEPT ![chain_id] = block_number]

\* A plausible slip: a failed write loses the chain's row.
UpdateCheckpointBlockNumber_ClearsOnError(snapshots, chain_id, block_number, db) ==
    IF db = "no_connection" THEN snapshots
    ELSE IF db = "error" THEN [snapshots EXCEPT ![chain_id] = NoCheckpoint]
    ELSE SnapshotUpdate(snapshots, chain_id, block_number)

\* Listener::update_checkpoint_block_number: no pooled connection or a failed
\* write is logged and leaves the table as it was.  (The block number is cast
\* to i64: the identity on the block numbers modelled here.)
UpdateCheckpointBlockNumber(snapshots, chain_id, block_number, db) ==
    IF db = "no_connection" THEN snapshots
    ELSE IF db = "error" THEN snapshots
    ELSE SnapshotUpdate(snapshots, chain_id, block_number)

(* -------------------------- candidate extraction ----------------------- *)

\* log.block_number is None.
NoBlockNumber == -1

\* What the chain answers for one oracle of the token: the multicall of
\* (finalized, template), then specification() and measurement_timestamp().
\* A call the code does not get to make has no answer: it is left TRUE.
Readings ==
    {r \in [multicall_ok : BOOLEAN, finalized : BOOLEAN, template : Templates,
            specification_ok : BOOLEAN, measurement_timestamp_ok : BOOLEAN] :
        /\ ~r.multicall_ok =>
              ~r.finalized /\ r.template = TemplateId /\ r.specification_ok
        /\ (~r.multicall_ok \/ r.finalized) =>
              r.specification_ok /\ r.measurement_timestamp_ok
        /\ ~r.specification_ok => r.measurement_timestamp_ok}

NoReading ==
    [multicall_ok |-> FALSE, finalized |-> FALSE, template |-> TemplateId,
     specification_ok |-> TRUE, measurement_timestamp_ok |-> TRUE]

OracleLists == UNION {[1..n -> Addresses] : n \in 0..MaxOracles}

\* A log as on_log sees it: its block number, whether it decodes as the
\* factory's CreateToken event, whether the token's oracles() call and the
\* construction of the multicall succeed, the token's oracles and what the
\* chain answers for each.  Parts the code never reads are left at one value.
NoLogBody ==
    [decodes |-> FALSE, oracles_ok |-> FALSE, multicall_new_ok |-> FALSE,
     oracles |-> <<>>, view |-> <<>>]

LogBodies ==
    {NoLogBody, [NoLogBody EXCEPT !.decodes = TRUE]}
    \cup {[decodes |-> TRUE, oracles_ok |-> TRUE, multicall_new_ok |-> FALSE,
           oracles |-> l, view |-> [a \in Range(l) |-> NoReading]] :
             l \in OracleLists \ {<<>>}}
    \cup UNION {{[decodes |-> TRUE, oracles_ok |-> TRUE, multicall_new_ok |-> TRUE,
                  oracles |-> l, view |-> v] : v \in [Range(l) -> Readings]} :
                    l \in OracleLists}

\* A plausible slip: the finalized test is left out.
Eligible_NoFinalizedTest(reading, oracle_template_id) ==
    reading.template = oracle_template_id

\* The two filters of parse_kpi_token_creation_log on a multicall's answer.
Eligible(reading, oracle_template_id) ==
    /\ ~reading.finalized
    /\ reading.template = oracle_template_id

DefiLlamaOracleData(chain_id, address) ==
    [address |-> address,
     measurement_timestamp |-> MeasurementTimestamp(address),
     specification_cid |-> SpecificationCid(chain_id, address)]

\* A plausible slip: a failed read of the specification reference does not
\* skip the oracle.
RECURSIVE ParseOracles_KeepsUnreadSpecification(_, _, _, _, _)
ParseOracles_KeepsUnreadSpecification(chain_id, body, oracle_template_id, i, data) ==
    IF i > Len(body.oracles) THEN [ok |-> TRUE, data |-> data]
    ELSE IF ~body.multicall_new_ok THEN [ok |-> FALSE, data |-> <<>>]
    ELSE LET oracle_address == body.oracles[i]
             reading == body.view[oracle_address]
             skip == ParseOracles_KeepsUnreadSpecification(
                         chain_id, body, oracle_template_id, i + 1, data)
         IN  IF ~reading.multicall_ok THEN skip
             ELSE IF ~Eligible(reading, oracle_template_id) THEN skip
             ELSE IF ~reading.measurement_timestamp_ok THEN skip
             ELSE ParseOracles_KeepsUnreadSpecification(
                      chain_id, body, oracle_template_id, i + 1,
                      Append(data, DefiLlamaOracleData(chain_id, oracle_address)))

\* The loop over the token's oracles, from the i-th on, `data` being the
\* candidates pushed so far.
RECURSIVE ParseOracles(_, _, _, _, _)
ParseOracles(chain_id, body, oracle_template_id, i, data) ==
    IF i > Len(body.oracles) THEN [ok |-> TRUE, data |-> data]
    ELSE IF ~body.multicall_new_ok THEN [ok |-> FALSE, data |-> <<>>]
    ELSE LET oracle_address == body.oracles[i]
             reading == body.view[oracle_address]
             skip == ParseOracles(chain_id, body, oracle_template_id, i + 1, data)
         IN  IF ~reading.multicall_ok THEN skip
             ELSE IF ~Eligible(reading, oracle_template_id) THEN skip
             ELSE IF ~reading.specification_ok THEN skip
             ELSE IF ~reading.measurement_timestamp_ok THEN skip
             ELSE ParseOracles(chain_id, body, oracle_template_id, i + 1,
                      Append(data, DefiLlamaOracleData(chain_id, oracle_address)))

\* parse_kpi_token_creation_log: a log that is no CreateToken event gives no
\* candidates; a failed oracles() call is an error.
ParseKpiTokenCreationLog(chain_id, body, oracle_template_id) ==
    IF ~body.decodes THEN [ok |-> TRUE, data |-> <<>>]
    ELSE IF ~body.oracles_ok THEN [ok |-> FALSE, data |-> <<>>]
    ELSE ParseOracles(chain_id, body, oracle_template_id, 1, <<>>)

\* Every outcome of the extraction on a log of the chain.
ParseResults ==
    [c \in Chains |-> {ParseKpiTokenCreationLog(c, body, TemplateId) : body \in LogBodies}]

(* ------------------------- acknowledgement tasks ----------------------- *)

\* Where a task has ended: with Ok(()) or with an error.
EndedOk == {"fetch_failed", "invalid", "saved"}
EndedErr == {"pool_err", "insert_err", "duplicate", "pin_err"}
Ended == EndedOk \cup EndedErr

\* A plausible slip: the validator's verdict is not looked at.
AcknowledgeOutcome_NoValidation(rows, chain_id, data, fetched, valid, db, pin) ==
    IF ~fetched THEN [pc |-> "fetch_failed", rows |-> rows]
    ELSE IF db = "no_connection" THEN [pc |-> "pool_err", rows |-> rows]
    ELSE IF db = "error" THEN [pc |-> "insert_err", rows |-> rows]
    ELSE LET created == ActiveOracleCreate(rows, Row(chain_id, data.address))
         IN  IF ~created.ok THEN [pc |-> "duplicate", rows |-> rows]
             ELSE [pc |-> IF pin THEN "pin" ELSE "saved", rows |-> created.rows]

\* A plausible slip: the fetch error is returned instead of being logged.
AcknowledgeOutcome_FetchErrorRaised(rows, chain_id, data, fetched, valid, db, pin) ==
    IF ~fetched THEN [pc |-> "insert_err", rows |-> rows]
    ELSE IF ~valid THEN [pc |-> "invalid", rows |-> rows]
    ELSE IF db = "no_connection" THEN [pc |-> "pool_err", rows |-> rows]
    ELSE IF db = "error" THEN [pc |-> "insert_err", rows |-> rows]
    ELSE LET created == ActiveOracleCreate(rows, Row(chain_id, data.address))
         IN  IF ~created.ok THEN [pc |-> "duplicate", rows |-> rows]
             ELSE [pc |-> IF pin THEN "pin" ELSE "saved", rows |-> created.rows]

\* acknowledge_active_oracle up to the insert: the fetch of the specification
\* (with its retries), its validation, a pooled connection, the insert.
AcknowledgeOutcome(rows, chain_id, data, fetched, valid, db, pin) ==
    IF ~fetched THEN [pc |-> "fetch_failed", rows |-> rows]
    ELSE IF ~valid THEN [pc |-> "invalid", rows |-> rows]
    ELSE IF db = "no_connection" THEN [pc |-> "pool_err", rows |-> rows]
    ELSE IF db = "error" THEN [pc |-> "insert_err", rows |-> rows]
    ELSE LET created == ActiveOracleCreate(rows, Row(chain_id, data.address))
         IN  IF ~created.ok THEN [pc |-> "duplicate", rows |-> rows]
             ELSE [pc |-> IF pin THEN "pin" ELSE "saved", rows |-> created.rows]

\* What a task meets: whether the fetch succeeds, the validator's verdict, the
\* store.  An answer the code does not get to ask for is left at one value.
AckEnvs ==
    {<<FALSE, TRUE, "ok">>, <<TRUE, FALSE, "ok">>, <<TRUE, TRUE, "no_connection">>,
     <<TRUE, TRUE, "error">>, <<TRUE, TRUE, "ok">>}

Task(data, at) == [data |-> data, pc |-> at]

\* acknowledge_active_oracles, the spawning loop: one task per candidate.
RECURSIVE Spawn(_)
Spawn(oracles_data) ==
    IF oracles_data = <<>> THEN EmptyBag
    ELSE SetToBag({Task(Head(oracles_data), "spawned")}) (+) Spawn(Tail(oracles_data))

\* The JoinSet with one task moved on; a task that has ended is joined.
Moved(join_set, task, at) ==
    IF at \in Ended THEN join_set (-) SetToBag({task})
    ELSE (join_set (-) SetToBag({task})) (+) SetToBag({Task(task.data, at)})

(* ------------------------------- the sweep ----------------------------- *)

Times == 0..2

RECURSIVE DeleteEach(_, _)
DeleteEach(rows, selves) ==
    IF selves = {} THEN rows
    ELSE LET self == CHOOSE r \in selves : TRUE
         IN  DeleteEach(ActiveOracleDelete(rows, self), selves \ {self})

\* The oracles of the chain whose measurement timestamp has elapsed.
Due(rows, chain_id, now) ==
    {r \in GetAllForChainId(rows, chain_id) : r.measurement_timestamp <= now}

(* ------------------------------ the state ------------------------------ *)

NoStoreCall == [op |-> "none", self |-> Row(10, "A"), before |-> EmptyBag]

Init ==
    /\ scanning_past = [c \in Chains |-> TRUE]
    /\ checkpoint = [c \in Chains |-> NoCheckpoint]
    /\ active_oracles = EmptyBag
    /\ pc = [c \in Chains |-> "idle"]
    /\ tasks = [c \in Chains |-> EmptyBag]
    /\ pinning \in BOOLEAN
    /\ new_block = [c \in Chains |-> NoBlockNumber]
    /\ updates = 0
    /\ store_call = NoStoreCall
    /\ top_level = [t \in TopLevel |-> "running"]
    /\ process = "running"

\* The scanner hands the chain's listener its next update.
Delivered(c, block_number) ==
    /\ pc[c] = "idle"
    /\ updates < MaxUpdates
    /\ updates' = updates + 1
    /\ UNCHANGED <<pinning, store_call, main_vars>>

\* on_update, Update::NewLog, on_log: a log without a block number is dropped.
OnUpdateNewLogNoBlockNumber(c) ==
    /\ pc[c] = "idle"
    /\ updates < MaxUpdates
    /\ updates' = updates + 1
    /\ UNCHANGED <<scanning_past, checkpoint, active_oracles, pc, tasks, pinning,
                   new_block, store_call, main_vars>>

\* A plausible slip: every log handled advances the checkpoint to its block.
OnUpdateNewLog_AdvancesCheckpoint(c, block_number, parsed) ==
    /\ Delivered(c, block_number)
    /\ UNCHANGED new_block
    /\ IF ~parsed.ok \/ parsed.data = <<>>
       THEN UNCHANGED <<pc, tasks>>
       ELSE /\ tasks' = [tasks EXCEPT ![c] = Spawn(parsed.data)]
            /\ pc' = [pc EXCEPT ![c] = "join"]
    /\ checkpoint' = SnapshotUpdate(checkpoint, c, block_number)
    /\ UNCHANGED <<scanning_past, active_oracles>>

\* on_update, Update::NewLog, on_log: `parsed` is what the extraction returns.
OnUpdateNewLog(c, block_number, parsed) ==
    /\ Delivered(c, block_number)
    /\ UNCHANGED new_block
    /\ IF ~parsed.ok \/ parsed.data = <<>>
       THEN UNCHANGED <<pc, tasks>>
       ELSE /\ tasks' = [tasks EXCEPT ![c] = Spawn(parsed.data)]
            /\ pc' = [pc EXCEPT ![c] = "join"]
    /\ UNCHANGED <<scanning_past, checkpoint, active_oracles>>

\* A plausible slip: the join loop returns at the first task error (`result?`),
\* dropping the JoinSet and with it the tasks still running.
AcknowledgeActiveOracle_Raises(c, task, fetched, valid, db) ==
    /\ pc[c] = "join"
    /\ BagIn(task, tasks[c])
    /\ task.pc = "spawned"
    /\ LET out == AcknowledgeOutcome(active_oracles, c, task.data,
                                     fetched, valid, db, pinning)
       IN  /\ IF out.pc \in EndedErr
              THEN /\ tasks' = [tasks EXCEPT ![c] = EmptyBag]
                   /\ pc' = [pc EXCEPT ![c] = "idle"]
              ELSE /\ tasks' = [tasks EXCEPT ![c] = Moved(@, task, out.pc)]
                   /\ UNCHANGED pc
           /\ active_oracles' = out.rows
    /\ UNCHANGED <<scanning_past, checkpoint, pinning, new_block, updates,
                   store_call, main_vars>>

\* One acknowledge_active_oracle task, up to the insert.
AcknowledgeActiveOracle(c, task, fetched, valid, db) ==
    /\ pc[c] = "join"
    /\ BagIn(task, tasks[c])
    /\ task.pc = "spawned"
    /\ LET out == AcknowledgeOutcome(active_oracles, c, task.data,
                                     fetched, valid, db, pinning)
       IN  /\ tasks' = [tasks EXCEPT ![c] = Moved(@, task, out.pc)]
           /\ active_oracles' = out.rows
    /\ UNCHANGED <<scanning_past, checkpoint, pc, pinning, new_block, updates,
                   store_call, main_vars>>

\* A task panics (the unwrap in ActiveOracle::create, or any other): join_next
\* returns a JoinError, which the join loop logs.
AcknowledgeActiveOraclePanics(c, task) ==
    /\ pc[c] = "join"
    /\ BagIn(task, tasks[c])
    /\ tasks' = [tasks EXCEPT ![c] = @ (-) SetToBag({task})]
    /\ UNCHANGED <<scanning_past, checkpoint, active_oracles, pc, pinning,
                   new_block, updates, store_call, main_vars>>

\* A plausible slip: a failed pinning takes the row back out of the table.
PinCid_RollsBack(c, task, pinned) ==
    /\ pc[c] = "join"
    /\ BagIn(task, tasks[c])
    /\ task.pc = "pin"
    /\ tasks' = [tasks EXCEPT ![c] = Moved(@, task, IF pinned THEN "saved" ELSE "pin_err")]
    /\ active_oracles' = IF pinned THEN active_oracles
                         ELSE ActiveOracleDelete(active_oracles, Row(c, task.data.address))
    /\ UNCHANGED <<scanning_past, checkpoint, pc, pinning,
                   new_block, updates, store_call, main_vars>>

\* The task asks web3.storage to pin the cid (with its retries).
PinCid(c, task, pinned) ==
    /\ pc[c] = "join"
    /\ BagIn(task, tasks[c])
    /\ task.pc = "pin"
    /\ tasks' = [tasks EXCEPT ![c] = Moved(@, task, IF pinned THEN "saved" ELSE "pin_err")]
    /\ UNCHANGED <<scanning_past, checkpoint, active_oracles, pc, pinning,
                   new_block, updates, store_call, main_vars>>

\* A plausible slip: on_log returns without waiting for the tasks.
JoinAll_NoWait(c) ==
    /\ pc[c] = "join"
    /\ pc' = [pc EXCEPT ![c] = "idle"]
    /\ UNCHANGED tasks
    /\ UNCHANGED <<scanning_past, checkpoint, active_oracles, pinning,
                   new_block, updates, store_call, main_vars>>

\* acknowledge_active_oracles, the join loop: every task has been joined, its
\* error (if any) logged, and on_log returns.
JoinAll(c) ==
    /\ pc[c] = "join"
    /\ tasks[c] = EmptyBag
    /\ pc' = [pc EXCEPT ![c] = "idle"]
    /\ UNCHANGED tasks
    /\ UNCHANGED <<scanning_past, checkpoint, active_oracles, pinning,
                   new_block, updates, store_call, main_vars>>

\* A plausible slip: the flag is recomputed from the progress of each batch.
StillScanningPast_Recomputed(scanning, progress_percentage) ==
    progress_percentage # 100

\* A plausible slip: the flag is cleared as soon as half of the past is scanned.
StillScanningPast_Half(scanning, progress_percentage) ==
    scanning /\ progress_percentage < 50

\* The flag after a PastBatchCompleted: cleared when the progress is 100.
StillScanningPast(scanning, progress_percentage) ==
    IF progress_percentage = 100 THEN FALSE ELSE scanning

\* on_update, Update::PastBatchCompleted (from_block is only logged).
OnUpdatePastBatchCompleted(c, to_block, progress_percentage, db) ==
    /\ Delivered(c, to_block)
    /\ scanning_past' = [scanning_past EXCEPT
                            ![c] = StillScanningPast(@, progress_percentage)]
    /\ checkpoint' = UpdateCheckpointBlockNumber(checkpoint, c, to_block, db)
    /\ UNCHANGED <<active_oracles, pc, tasks, new_block>>

\* A plausible slip: the checkpoint is written when the block arrives.
OnUpdateNewBlock_WriteFirst(c, block_number) ==
    /\ Delivered(c, block_number)
    /\ new_block' = [new_block EXCEPT ![c] = block_number]
    /\ pc' = [pc EXCEPT ![c] = "sweep"]
    /\ checkpoint' = IF scanning_past[c] THEN checkpoint
                     ELSE SnapshotUpdate(checkpoint, c, block_number)
    /\ UNCHANGED <<scanning_past, active_oracles, tasks>>

\* on_update, Update::NewBlock: the sweep is started.
OnUpdateNewBlock(c, block_number) ==
    /\ Delivered(c, block_number)
    /\ new_block' = [new_block EXCEPT ![c] = block_number]
    /\ pc' = [pc EXCEPT ![c] = "sweep"]
    /\ UNCHANGED <<scanning_past, checkpoint, active_oracles, tasks>>

\* handle_active_oracles_answering: the oracles of the chain that are due are
\* answered; those whose answer is confirmed are deleted.
HandleActiveOraclesAnswering(c, db, now, answered) ==
    /\ pc[c] = "sweep"
    /\ answered \subseteq Due(active_oracles, c, now)
    /\ db # "ok" => answered = {}
    /\ active_oracles' = DeleteEach(active_oracles, answered)
    /\ pc' = [pc EXCEPT ![c] = "checkpoint"]
    /\ UNCHANGED <<scanning_past, checkpoint, tasks, pinning, new_block,
                   updates, store_call, main_vars>>

\* A plausible slip: the test of the flag is left out.
AdvanceOnNewBlock_Always(scanning) == TRUE

\* on_update, Update::NewBlock, after the sweep: `if !self.scanning_past`.
AdvanceOnNewBlock(scanning) == ~scanning

\* on_update, Update::NewBlock, after the sweep: the checkpoint.
NewBlockCheckpoint(c, db) ==
    /\ pc[c] = "checkpoint"
    /\ checkpoint' = IF AdvanceOnNewBlock(scanning_past[c])
                     THEN UpdateCheckpointBlockNumber(checkpoint, c, new_block[c], db)
                     ELSE checkpoint
    /\ pc' = [pc EXCEPT ![c] = "idle"]
    /\ new_block' = [new_block EXCEPT ![c] = NoBlockNumber]
    /\ UNCHANGED <<scanning_past, active_oracles, tasks, pinning,
                   updates, store_call, main_vars>>

Next ==
    \/ \E c \in Chains : OnUpdateNewLogNoBlockNumber(c)
    \/ \E c \in Chains, b \in Blocks : \E parsed \in ParseResults[c] :
          OnUpdateNewLog(c, b, parsed)
    \/ \E c \in Chains, to \in Blocks, p \in Progress, db \in DbOutcomes :
          OnUpdatePastBatchCompleted(c, to, p, db)
    \/ \E c \in Chains, b \in Blocks : OnUpdateNewBlock(c, b)
    \/ \E c \in Chains, db \in DbOutcomes, now \in Times :
          \E answered \in SUBSET Due(active_oracles, c, now) :
             HandleActiveOraclesAnswering(c, db, now, answered)
    \/ \E c \in Chains, db \in DbOutcomes : NewBlockCheckpoint(c, db)
    \/ \E c \in Chains : \E task \in BagToSet(tasks[c]) :
          \E env \in AckEnvs :
             AcknowledgeActiveOracle(c, task, env[1], env[2], env[3])
    \/ \E c \in Chains : \E task \in BagToSet(tasks[c]) : \E pinned \in BOOLEAN :
          PinCid(c, task, pinned)
    \/ \E c \in Chains : \E task \in BagToSet(tasks[c]) :
          AcknowledgeActiveOraclePanics(c, task)
    \/ \E c \in Chains : JoinAll(c)

Spec == Init /\ [][Next]_vars

(* ------------------------- the store interface alone ------------------- *)

\* ActiveOracle::create and ActiveOracle::delete called on a store that the
\* pipeline could have filled, with any row as argument.
StoreCreate(row) ==
    /\ store_call' = [op |-> "create", self |-> row, before |-> active_oracles]
    /\ active_oracles' = ActiveOracleCreate(active_oracles, row).rows
    /\ UNCHANGED <<scanning_past, checkpoint, pc, tasks, pinning, new_block, updates,
                   main_vars>>

StoreDelete(self) ==
    /\ store_call' = [op |-> "delete", self |-> self, before |-> active_oracles]
    /\ active_oracles' = ActiveOracleDelete(active_oracles, self)
    /\ UNCHANGED <<scanning_past, checkpoint, pc, tasks, pinning, new_block, updates,
                   main_vars>>

StoreNext ==
    \/ \E row \in Rows : StoreCreate(row)
    \/ \E self \in Rows : StoreDelete(self)

StoreSpec == Init /\ [][StoreNext]_vars

(* --------------------------- the sweeps alone -------------------------- *)

\* The tables a run can have left behind: no two rows with one address.
Stores ==
    {SetToBag(rows) : rows \in {S \in SUBSET Rows :
                                   \A r, q \in S : r.address = q.address => r = q}}

\* A restarted process: the listeners are new, the table is what the last run
\* left.
SweepInit ==
    /\ scanning_past = [c \in Chains |-> TRUE]
    /\ checkpoint = [c \in Chains |-> NoCheckpoint]
    /\ active_oracles \in Stores
    /\ pc = [c \in Chains |-> "idle"]
    /\ tasks = [c \in Chains |-> EmptyBag]
    /\ pinning \in BOOLEAN
    /\ new_block = [c \in Chains |-> NoBlockNumber]
    /\ updates = 0
    /\ store_call = NoStoreCall
    /\ top_level = [t \in TopLevel |-> "running"]
    /\ process = "running"

\* A plausible slip: the sweep is run only once the past has been scanned.
NewBlockArrives_SkipsSweepInReplay(c, block_number) ==
    /\ pc[c] = "idle"
    /\ new_block' = [new_block EXCEPT ![c] = block_number]
    /\ pc' = [pc EXCEPT ![c] = IF scanning_past[c] THEN "checkpoint" ELSE "sweep"]
    /\ UNCHANGED <<scanning_past, checkpoint, active_oracles, tasks, pinning,
                   updates, store_call, main_vars>>

\* on_update, Update::NewBlock, of a chain whose blocks keep coming (the
\* updates are not counted): the sweep is started.
NewBlockArrives(c, block_number) ==
    /\ pc[c] = "idle"
    /\ new_block' = [new_block EXCEPT ![c] = block_number]
    /\ pc' = [pc EXCEPT ![c] = "sweep"]
    /\ UNCHANGED <<scanning_past, checkpoint, active_oracles, tasks, pinning,
                   updates, store_call, main_vars>>

\* A sweep of the row's chain in which the submission for the row is confirmed.
Answered(r) ==
    \E now \in Times : \E answered \in SUBSET Due(active_oracles, r.chain_id, now) :
        /\ r \in answered
        /\ HandleActiveOraclesAnswering(r.chain_id, "ok", now, answered)

SweepNext ==
    \/ \E c \in Chains, b \in Blocks : NewBlockArrives(c, b)
    \/ \E c \in Chains, db \in DbOutcomes, now \in Times :
          \E answered \in SUBSET Due(active_oracles, c, now) :
             HandleActiveOraclesAnswering(c, db, now, answered)
    \/ \E c \in Chains, db \in DbOutcomes : NewBlockCheckpoint(c, db)

\* Blocks keep arriving on every chain, on_update runs to its end, and for
\* every oracle the submission is confirmed in some sweep if it is attempted
\* again and again.
SweepFairness ==
    /\ \A c \in Chains : WF_vars(\E b \in Blocks : NewBlockArrives(c, b))
    /\ \A c \in Chains :
          WF_vars(\E db \in DbOutcomes, now \in Times :
                     \E answered \in SUBSET Due(active_oracles, c, now) :
                        HandleActiveOraclesAnswering(c, db, now, answered))
    /\ \A c \in Chains : WF_vars(\E db \in DbOutcomes : NewBlockCheckpoint(c, db))
    /\ \A r \in Rows : SF_vars(Answered(r))

SweepSpec == SweepInit /\ [][SweepNext]_vars /\ SweepFairness

(* ------------------------------ the supervisor ------------------------- *)

\* A top-level task stops.
TaskExits(t, how) ==
    /\ process = "running"
    /\ top_level[t] = "running"
    /\ top_level' = [top_level EXCEPT ![t] = how]
    /\ UNCHANGED <<scanning_past, checkpoint, active_oracles, pc, tasks, pinning,
                   new_block, updates, store_call, process>>

\* `res.context("task unexpectedly stopped")?` on what join_next returns: only
\* a JoinError (the task panicked) is propagated; the value the task returned,
\* Ok or Err, is dropped by `let _ =`.
JoinNextPropagates(exit) == exit = "panicked"

\* main, one turn of the loop on join_next.
MainJoinNext(t) ==
    /\ process = "running"
    /\ top_level[t] \in Exits
    /\ IF JoinNextPropagates(top_level[t])
       THEN process' = "exited_err" /\ UNCHANGED top_level
       ELSE top_level' = [top_level EXCEPT ![t] = "joined"] /\ UNCHANGED process
    /\ UNCHANGED <<scanning_past, checkpoint, active_oracles, pc, tasks, pinning,
                   new_block, updates, store_call>>

\* main: join_next returns None, main returns Ok(()).
MainReturns ==
    /\ process = "running"
    /\ \A t \in TopLevel : top_level[t] = "joined"
    /\ process' = "exited_ok"
    /\ UNCHANGED <<scanning_past, checkpoint, active_oracles, pc, tasks, pinning,
                   new_block, updates, store_call, top_level>>

\* A chain's scan task, while it and the process run, hands its listener a
\* completed batch.
ScanRuns(c) ==
    /\ process = "running"
    /\ top_level[<<"scan", c>>] = "running"
    /\ \E to \in Blocks, p \in Progress, db \in DbOutcomes :
          OnUpdatePastBatchCompleted(c, to, p, db)

MainNext ==
    \/ \E t \in TopLevel, how \in Exits : TaskExits(t, how)
    \/ \E t \in TopLevel : MainJoinNext(t)
    \/ MainReturns
    \/ \E c \in Chains : ScanRuns(c)

MainSpec == Init /\ [][MainNext]_vars

(* ------------------------------- the claims ---------------------------- *)

Idle(c) == pc[c] = "idle"
HasRow(rows, chain_id, address) ==
    \E r \in BagToSet(rows) : r.chain_id = chain_id /\ r.address = address

\* The block number an update of chain c carries, when the step is the one
\* that ends the handling of that update with the checkpoint decided:
\* StepEnds(c, b) holds of such a step for the update's block number b.
StepEnds(c, b) ==
    \/ \E parsed \in ParseResults[c] : OnUpdateNewLog(c, b, parsed)
    \/ \E p \in Progress, db \in DbOutcomes : OnUpdatePastBatchCompleted(c, b, p, db)
    \/ \E db \in DbOutcomes : NewBlockCheckpoint(c, db) /\ new_block[c] = b

\* C1 as stated: after an update of a chain has been handled, the chain's
\* checkpoint does not exceed the block number of that update, whatever the
\* updates before it were.
C1_CheckpointAtMostLastBlock ==
    [][\A c \in Chains, b \in Blocks : checkpoint'[c] <= b \/ ~StepEnds(c, b)]_vars

\* C1 as amended: an update never lifts the checkpoint above its own block
\* number: if the checkpoint stored before the update does not exceed the
\* update's block number, the checkpoint stored after it does not either.
C1_CheckpointNotLiftedAboveBlock ==
    [][\A c \in Chains, b \in Blocks :
          checkpoint[c] <= b => checkpoint'[c] <= b \/ ~StepEnds(c, b)]_vars

\* A checkpoint has been written by an update and a later update of the same
\* chain has been handled with the checkpoint still not above its block.
C1_Witness ==
    \E c \in Chains : Idle(c) /\ checkpoint[c] = MaxBlock /\ updates >= 2

\* C2 as stated: no step ever replaces a chain's checkpoint with a smaller
\* value.
C2_CheckpointNeverDecreases ==
    [][\A c \in Chains : checkpoint'[c] >= checkpoint[c]]_vars

\* C2 as amended: the checkpoint of a chain decreases only by the write of an
\* update whose block number is below the stored checkpoint (the write
\* overwrites); every other step leaves it equal or larger.
C2_CheckpointDecreasesOnlyByLowerBlock ==
    [][\A c \in Chains :
          checkpoint'[c] < checkpoint[c] =>
             \/ \E to \in Blocks, p \in Progress :
                   /\ OnUpdatePastBatchCompleted(c, to, p, "ok")
                   /\ to < checkpoint[c]
             \/ NewBlockCheckpoint(c, "ok") /\ new_block[c] < checkpoint[c]]_vars

\* The checkpoint of a live chain has been advanced to the highest block.
C2_Witness ==
    \E c \in Chains :
        Idle(c) /\ ~scanning_past[c] /\ checkpoint[c] = MaxBlock /\ updates = MaxUpdates

\* C3: while a chain is in historical replay, its checkpoint is changed only
\* by a PastBatchCompleted: a NewLog leaves it unchanged, a NewBlock starts
\* the sweep and leaves it unchanged, before and after the sweep.
C3_ReplayCheckpointOnlyByBatch ==
    [][\A c \in Chains :
          scanning_past[c] =>
             /\ checkpoint'[c] # checkpoint[c] =>
                   \E to \in Blocks, p \in Progress, db \in DbOutcomes :
                      OnUpdatePastBatchCompleted(c, to, p, db)
             /\ \A b \in Blocks :
                   OnUpdateNewBlock(c, b) => pc'[c] = "sweep" /\ checkpoint' = checkpoint
             /\ \A db \in DbOutcomes :
                   NewBlockCheckpoint(c, db) => checkpoint' = checkpoint
             /\ \/ checkpoint' = checkpoint
                \/ \A b \in Blocks : \A parsed \in ParseResults[c] :
                      ~OnUpdateNewLog(c, b, parsed)]_vars

\* In replay, the sweep of a NewBlock above the checkpoint has run and the
\* checkpoint a PastBatchCompleted wrote is still the stored one.
C3_Witness ==
    \E c \in Chains :
        /\ scanning_past[c] /\ pc[c] = "checkpoint"
        /\ checkpoint[c] = 1 /\ new_block[c] = MaxBlock

\* C4 as stated: on a live chain every NewBlock(n) ends with the checkpoint
\* at n, and the checkpoint is not written when the block arrives nor while
\* the sweep runs.
C4_LiveNewBlockAdvances ==
    [][\A c \in Chains :
          ~scanning_past[c] =>
             /\ \A b \in Blocks :
                   OnUpdateNewBlock(c, b) => pc'[c] = "sweep" /\ checkpoint' = checkpoint
             /\ pc[c] = "sweep" => checkpoint'[c] = checkpoint[c]
             /\ \A db \in DbOutcomes :
                   NewBlockCheckpoint(c, db) => checkpoint'[c] = new_block[c]]_vars

\* C4 as amended: on a live chain every NewBlock(n) starts the sweep, the
\* checkpoint is not written when the block arrives nor while the sweep runs,
\* and after the sweep the checkpoint is n when the store write succeeds and
\* keeps its value when the write fails.
C4_LiveNewBlockAdvancesWhenWritten ==
    [][\A c \in Chains :
          ~scanning_past[c] =>
             /\ \A b \in Blocks :
                   OnUpdateNewBlock(c, b) => pc'[c] = "sweep" /\ checkpoint' = checkpoint
             /\ pc[c] = "sweep" => checkpoint'[c] = checkpoint[c]
             /\ NewBlockCheckpoint(c, "ok") => checkpoint'[c] = new_block[c]
             /\ \A db \in DbOutcomes \ {"ok"} :
                   NewBlockCheckpoint(c, db) => checkpoint'[c] = checkpoint[c]]_vars

\* On a live chain the sweep of NewBlock(n) has finished and the checkpoint
\* is still the one stored before n.
C4_Witness ==
    \E c \in Chains :
        /\ ~scanning_past[c] /\ pc[c] = "checkpoint"
        /\ checkpoint[c] # NoCheckpoint /\ new_block[c] > checkpoint[c]

\* C5: a PastBatchCompleted(from, to, progress) sets the checkpoint to `to`
\* when the store write succeeds and leaves it when the write fails, whatever
\* the progress; the flag is cleared when the progress is 100 and keeps its
\* value otherwise.
C5_PastBatchCompleted ==
    [][updates' # updates /\ pc' = pc =>
          \A c \in Chains, to \in Blocks, p \in Progress, db \in DbOutcomes :
             \/ /\ db = "ok" => checkpoint'[c] = to
                /\ db # "ok" => checkpoint'[c] = checkpoint[c]
                /\ p = 100 => ~scanning_past'[c]
                /\ p # 100 => scanning_past'[c] = scanning_past[c]
             \/ ~OnUpdatePastBatchCompleted(c, to, p, db)]_vars

\* One chain has its checkpoint from a batch that left it in replay, the
\* other from a batch that made it live.
C5_Witness ==
    \E c, d \in Chains :
        /\ scanning_past[c] /\ checkpoint[c] = MaxBlock
        /\ ~scanning_past[d] /\ checkpoint[d] = 1

\* C6: the table never holds two rows for one (chain_id, address), nor one
\* row twice; and a create for a key that is already in the table ends the
\* task with an error value, leaves the table as it was, and leaves the
\* dispatcher in its join loop.
C6_AtMostOneRowPerKey ==
    /\ [](\A r \in BagToSet(active_oracles) :
             /\ CopiesIn(r, active_oracles) = 1
             /\ \A q \in BagToSet(active_oracles) :
                   q.chain_id = r.chain_id /\ q.address = r.address => q = r)
    /\ [][\A c \in Chains : \A task \in BagToSet(tasks[c]) :
             /\ HasRow(active_oracles, c, task.data.address)
             /\ AcknowledgeActiveOracle(c, task, TRUE, TRUE, "ok")
             => /\ active_oracles' = active_oracles
                /\ AcknowledgeOutcome(active_oracles, c, task.data,
                                      TRUE, TRUE, "ok", pinning).pc \in EndedErr
                /\ tasks'[c] = tasks[c] (-) SetToBag({task})
                /\ pc'[c] = "join"]_vars

\* A row is in the table while a task that will create the same key, and a
\* second one for the same key, are still running.
C6_Witness ==
    \E c \in Chains : \E task \in BagToSet(tasks[c]) :
        /\ task.pc = "spawned"
        /\ CopiesIn(task, tasks[c]) = 2
        /\ HasRow(active_oracles, c, task.data.address)

\* C7 as stated: a delete of a key that is in the table removes exactly that
\* row, a delete of a key that is not in the table leaves the table as it
\* was, and a second delete changes nothing.
C7_DeleteIdempotent ==
    store_call.op = "delete" =>
        LET self == store_call.self
            before == store_call.before
        IN  /\ HasRow(before, self.chain_id, self.address) =>
                  /\ ~HasRow(active_oracles, self.chain_id, self.address)
                  /\ \A r \in BagToSet(before) :
                        (r.chain_id # self.chain_id \/ r.address # self.address)
                        => CopiesIn(r, active_oracles) = CopiesIn(r, before)
            /\ ~HasRow(before, self.chain_id, self.address) =>
                  active_oracles = before
            /\ ActiveOracleDelete(active_oracles, self) = active_oracles

\* The steps the dispatcher of chain c and its tasks take.
ChainStep(c) ==
    \/ OnUpdateNewLogNoBlockNumber(c)
    \/ \E b \in Blocks : \E parsed \in ParseResults[c] : OnUpdateNewLog(c, b, parsed)
    \/ \E to \in Blocks, p \in Progress, db \in DbOutcomes :
          OnUpdatePastBatchCompleted(c, to, p, db)
    \/ \E b \in Blocks : OnUpdateNewBlock(c, b)
    \/ \E db \in DbOutcomes, now \in Times :
          \E answered \in SUBSET Due(active_oracles, c, now) :
             HandleActiveOraclesAnswering(c, db, now, answered)
    \/ \E db \in DbOutcomes : NewBlockCheckpoint(c, db)
    \/ \E task \in BagToSet(tasks[c]) : \E env \in AckEnvs :
          AcknowledgeActiveOracle(c, task, env[1], env[2], env[3])
    \/ \E task \in BagToSet(tasks[c]) : \E pinned \in BOOLEAN : PinCid(c, task, pinned)
    \/ \E task \in BagToSet(tasks[c]) : AcknowledgeActiveOraclePanics(c, task)
    \/ JoinAll(c)

\* C8 as stated: a step of one chain leaves the rows and the checkpoint of
\* every other chain as they were, and an oracle address can be active on two
\* chains at once: with a healthy store, a task of chain c whose key
\* (c, address) is not in the table gets its row created, whatever the rows
\* of the other chains.
C8_ChainsPartitioned ==
    [][\A c \in Chains :
          /\ ChainStep(c) =>
                \A d \in Chains \ {c} :
                   /\ checkpoint'[d] = checkpoint[d]
                   /\ \A r \in Rows :
                         r.chain_id = d =>
                            CopiesIn(r, active_oracles') = CopiesIn(r, active_oracles)
          /\ \A task \in BagToSet(tasks[c]) :
                /\ ~HasRow(active_oracles, c, task.data.address)
                /\ AcknowledgeActiveOracle(c, task, TRUE, TRUE, "ok")
                => HasRow(active_oracles', c, task.data.address)]_vars

\* The addresses of a log's oracles that the chain reports as finalized or as
\* of another template than the target one.
Ineligible(body) ==
    {a \in Range(body.oracles) :
        /\ body.multicall_new_ok
        /\ body.view[a].multicall_ok
        /\ body.view[a].finalized \/ body.view[a].template # TemplateId}

\* For each chain, every log paired with the tasks on_log spawns for it.
SpawnedFor ==
    [c \in Chains |->
        {[ineligible |-> Ineligible(body),
          join_set |-> Spawn(ParseKpiTokenCreationLog(c, body, TemplateId).data)] :
            body \in LogBodies}]

\* C9: whatever log a NewLog carries, no task is spawned for an oracle that
\* the chain reports as finalized or as of another template than the target
\* one; and a row only ever enters the table from a task spawned for its
\* chain and address, so such an oracle gets no row.
C9_IneligibleNeverCandidate ==
    [][/\ \A c \in Chains :
             pc[c] = "idle" /\ pc'[c] = "join" =>
                \A log \in SpawnedFor[c] :
                   tasks'[c] = log.join_set
                   => \A task \in BagToSet(tasks'[c]) :
                         task.data.address \notin log.ineligible
       /\ \A r \in Rows :
             CopiesIn(r, active_oracles') > CopiesIn(r, active_oracles) =>
                \E task \in BagToSet(tasks[r.chain_id]) :
                   /\ task.pc = "spawned"
                   /\ task.data.address = r.address]_vars

\* The tasks in flight are those of a log that lists an ineligible oracle
\* beside an eligible one: only the eligible one has a task.
C9_Witness ==
    \E c \in Chains : \E log \in SpawnedFor[c] :
        /\ pc[c] = "join"
        /\ log.ineligible # {}
        /\ tasks[c] # EmptyBag
        /\ tasks[c] = log.join_set

\* C10: a task whose fetched specification the validator refuses leaves the
\* table as it was, asks for no pinning and ends with Ok; and a row only ever
\* enters the table by the step of a task whose specification was fetched and
\* validated.
C10_OnlyValidatedPersisted ==
    [][\A c \in Chains :
          tasks'[c] # tasks[c] =>
             \A task \in BagToSet(tasks[c]) :
                /\ \A db \in DbOutcomes :
                      AcknowledgeActiveOracle(c, task, TRUE, FALSE, db) =>
                         /\ active_oracles' = active_oracles
                         /\ AcknowledgeOutcome(active_oracles, c, task.data,
                                               TRUE, FALSE, db, pinning).pc \in EndedOk
                         /\ tasks'[c] = tasks[c] (-) SetToBag({task})
                /\ active_oracles' # active_oracles =>
                      \A fetched, valid \in BOOLEAN, db \in DbOutcomes :
                         AcknowledgeActiveOracle(c, task, fetched, valid, db)
                         => fetched /\ valid]_vars

\* Every task of a chain's first log has been joined and exactly one validated
\* specification of the chain has been persisted.
C10_Witness ==
    \E c \in Chains :
        /\ pc[c] = "join"
        /\ tasks[c] = EmptyBag
        /\ Cardinality(GetAllForChainId(active_oracles, c)) = 1
        /\ updates = 1

\* The oracles of a log that the chain reports as not finalized and of the
\* target template, and whose specification reference and measurement
\* timestamp it lets be read.
Passes(reading) ==
    /\ reading.multicall_ok
    /\ ~reading.finalized
    /\ reading.template = TemplateId
    /\ reading.specification_ok
    /\ reading.measurement_timestamp_ok

PassingOracles(body) == SelectSeq(body.oracles, LAMBDA a : Passes(body.view[a]))

\* For each chain, every log whose extraction gets to its oracles, with the
\* tasks on_log spawns for it and the tasks of its passing oracles.
Extractions ==
    [c \in Chains |->
        {[join_set |-> Spawn(ParseKpiTokenCreationLog(c, body, TemplateId).data),
          passing |-> Spawn([i \in 1..Len(PassingOracles(body)) |->
                               DefiLlamaOracleData(c, PassingOracles(body)[i])])] :
            body \in {b \in LogBodies : b.decodes /\ b.oracles_ok /\ b.multicall_new_ok}}]

\* C11: the tasks a NewLog spawns are exactly those of the log's oracles that
\* are not finalized, of the target template and whose two reads succeed; and
\* the step of a task whose fetch, validation and insert succeed leaves
\* exactly one row for its (chain, address) and adds no other row.
C11_ExtractionAndPersistence ==
    [][\A c \in Chains :
          /\ pc[c] = "idle" /\ pc'[c] = "join" =>
                \A log \in Extractions[c] :
                   tasks'[c] = log.join_set => tasks'[c] = log.passing
          /\ tasks'[c] # tasks[c] /\ pc[c] = "join" =>
                \A task \in BagToSet(tasks[c]) :
                   /\ AcknowledgeActiveOracle(c, task, TRUE, TRUE, "ok")
                   /\ ActiveOracleCreate(active_oracles, Row(c, task.data.address)).ok
                   => /\ CopiesIn(Row(c, task.data.address), active_oracles') = 1
                      /\ \A r \in Rows \ {Row(c, task.data.address)} :
                            CopiesIn(r, active_oracles') = CopiesIn(r, active_oracles)]_vars

\* Chain 10's first log has been handled up to the join and the table holds
\* the row (10, B) and no other.
C11_Witness ==
    /\ pc[10] = "join"
    /\ tasks[10] = EmptyBag
    /\ active_oracles = SetToBag({Row(10, "B")})
    /\ updates = 1

\* C12: the step of a task whose fetch of the specification fails (its
\* retries exhausted) adds no row, ends the task with Ok, and leaves the
\* dispatcher joining with every sibling task as it was; a sibling that is
\* then met by a successful fetch, validation and insert gets its row.
C12_FetchFailureIsContained ==
    [][\A c \in Chains :
          tasks'[c] # tasks[c] /\ pc[c] = "join" =>
             \A task \in BagToSet(tasks[c]) : \A valid \in BOOLEAN, db \in DbOutcomes :
                AcknowledgeActiveOracle(c, task, FALSE, valid, db) =>
                   /\ active_oracles' = active_oracles
                   /\ AcknowledgeOutcome(active_oracles, c, task.data,
                                         FALSE, valid, db, pinning).pc \in EndedOk
                   /\ tasks'[c] = tasks[c] (-) SetToBag({task})
                   /\ pc'[c] = "join"
                   /\ \A sibling \in BagToSet(tasks'[c]) :
                         /\ sibling.pc = "spawned"
                         /\ ActiveOracleCreate(active_oracles',
                                               Row(c, sibling.data.address)).ok
                         => HasRow(AcknowledgeOutcome(active_oracles', c, sibling.data,
                                                      TRUE, TRUE, "ok", pinning).rows,
                                   c, sibling.data.address)]_vars

\* Of the two tasks of a chain's first log one has ended leaving no row, and
\* its sibling is still to run.
C12_Witness ==
    \E c \in Chains : \E sibling \in BagToSet(tasks[c]) :
        /\ pc[c] = "join"
        /\ tasks[c] = SetToBag({sibling})
        /\ sibling.pc = "spawned"
        /\ active_oracles = EmptyBag
        /\ updates = 1

\* C13: a sweep of a chain at time `now` removes only rows whose submission
\* was confirmed, all of them due at `now`; every other row, and so every row
\* of the chain whose measurement timestamp is after `now`, is still in the
\* table, unchanged.
C13_SweepRemovesOnlyDueAnswered ==
    [][\A c \in Chains :
          pc[c] = "sweep" =>
             \A db \in DbOutcomes, now \in Times :
                \A answered \in SUBSET Due(active_oracles, c, now) :
                   HandleActiveOraclesAnswering(c, db, now, answered) =>
                      \A r \in BagToSet(active_oracles) :
                         /\ r \notin answered =>
                               CopiesIn(r, active_oracles') = CopiesIn(r, active_oracles)
                         /\ r.measurement_timestamp > now => BagIn(r, active_oracles')
                         /\ ~BagIn(r, active_oracles') =>
                               /\ r.chain_id = c
                               /\ r.measurement_timestamp <= now
                               /\ db = "ok"]_vars

\* A sweep of a chain has run and the row whose measurement timestamp is the
\* later one is the only row of the chain.
C13_Witness ==
    \E c \in Chains :
        /\ pc[c] = "checkpoint"
        /\ GetAllForChainId(active_oracles, c) = {Row(c, "B")}
        /\ updates = 2

\* C14 as stated: once main has joined a top-level task that stopped, however
\* it stopped, the process is over: no chain's listener handles an update
\* after that.
C14_AnyExitStopsProcess ==
    [][\A c \in Chains :
          ScanRuns(c) => \A t \in TopLevel : top_level[t] # "joined"]_vars

\* The listener of chain c is handed an update.
Delivers(c) ==
    \/ OnUpdateNewLogNoBlockNumber(c)
    \/ \E b \in Blocks : \E parsed \in ParseResults[c] : OnUpdateNewLog(c, b, parsed)
    \/ \E to \in Blocks, p \in Progress, db \in DbOutcomes :
          OnUpdatePastBatchCompleted(c, to, p, db)
    \/ \E b \in Blocks : OnUpdateNewBlock(c, b)

\* C15: a chain's listener is handed an update only when it has finished the
\* one before and every task of that one has been joined; tasks exist only
\* while their NewLog is being handled, rows are inserted only then, and no
\* sweep or checkpoint write of the chain happens while a task is left.
C15_OneUpdateAtATime ==
    /\ [](\A c \in Chains : pc[c] # "join" => tasks[c] = EmptyBag)
    /\ [][\A c \in Chains :
             /\ updates' # updates =>
                   \/ pc[c] = "idle" /\ tasks[c] = EmptyBag
                   \/ ~Delivers(c)
             /\ \A r \in Rows :
                   /\ r.chain_id = c
                   /\ CopiesIn(r, active_oracles') > CopiesIn(r, active_oracles)
                   => pc[c] = "join" /\ pc'[c] = "join"
             /\ (checkpoint'[c] # checkpoint[c] \/ pc[c] \in {"sweep", "checkpoint"})
                => tasks[c] = EmptyBag]_vars

\* The tasks of a NewLog of a chain have inserted their rows and been joined,
\* and the sweep of the chain's next update, a NewBlock, is about to run.
C15_Witness ==
    \E c \in Chains :
        /\ pc[c] = "sweep"
        /\ GetAllForChainId(active_oracles, c) # {}
        /\ tasks[c] = EmptyBag

\* A task of chain c has ended and nothing but the JoinSet has changed: the
\* listener is still joining, the other tasks are as they were.
Contained(c, task) ==
    /\ tasks'[c] = tasks[c] (-) SetToBag({task})
    /\ pc'[c] = "join"
    /\ scanning_past' = scanning_past
    /\ checkpoint' = checkpoint
    /\ active_oracles' = active_oracles

\* C16: a task that ends with an error (no connection, a failed or refused
\* insert, a failed pinning) or panics only leaves the JoinSet: the listener
\* keeps joining, the other tasks of the log are as they were, the flag, the
\* checkpoint and the table are unchanged; and the join loop ends in the
\* listener being ready for its next update, flag and checkpoint unchanged.
C16_TaskErrorsOnlyLogged ==
    [][\A c \in Chains :
          /\ tasks'[c] # tasks[c] /\ pc[c] = "join" =>
                \A task \in BagToSet(tasks[c]) :
                   /\ \A db \in DbOutcomes :
                         /\ AcknowledgeActiveOracle(c, task, TRUE, TRUE, db)
                         /\ AcknowledgeOutcome(active_oracles, c, task.data, TRUE, TRUE,
                                               db, pinning).pc \in EndedErr
                         => Contained(c, task)
                   /\ PinCid(c, task, FALSE) => Contained(c, task)
                   /\ AcknowledgeActiveOraclePanics(c, task) => Contained(c, task)
          /\ pc[c] = "join" /\ pc'[c] # "join" =>
                /\ pc'[c] = "idle"
                /\ tasks[c] = EmptyBag
                /\ scanning_past' = scanning_past
                /\ checkpoint' = checkpoint]_vars

\* With pinning configured, a task of a chain's log has ended after its
\* insert, its pinning done or failed, and its sibling is still to run.
C16_Witness ==
    \E c \in Chains : \E sibling \in BagToSet(tasks[c]) :
        /\ pinning
        /\ pc[c] = "join"
        /\ tasks[c] = SetToBag({sibling})
        /\ sibling.pc = "spawned"
        /\ GetAllForChainId(active_oracles, c) # {}
        /\ ~HasRow(active_oracles, c, sibling.data.address)

\* C17: a task is at its pinning only when pinning is configured and its row
\* is in the table; and a pinning that fails ends the task and leaves the
\* table as it was, the task's row among the rows a sweep of the chain reads.
C17_PinningAfterPersist ==
    /\ [](\A c \in Chains : \A task \in BagToSet(tasks[c]) :
             task.pc = "pin" =>
                /\ pinning
                /\ Row(c, task.data.address) \in GetAllForChainId(active_oracles, c))
    /\ [][\A c \in Chains :
             tasks'[c] # tasks[c] /\ pc[c] = "join" =>
                \A task \in BagToSet(tasks[c]) :
                   PinCid(c, task, FALSE) =>
                      /\ active_oracles' = active_oracles
                      /\ Row(c, task.data.address) \in GetAllForChainId(active_oracles', c)
                      /\ tasks'[c] = tasks[c] (-) SetToBag({task})]_vars

\* A task has inserted its row and is asking for the pinning.
C17_Witness ==
    \E c \in Chains : \E task \in BagToSet(tasks[c]) :
        /\ task.pc = "pin"
        /\ HasRow(active_oracles, c, task.data.address)

\* C18: a PastBatchCompleted or NewBlock whose checkpoint write fails (no
\* connection, or a store error) leaves every checkpoint as it was and the
\* listener ready for its next update; and a later update whose write
\* succeeds sets the chain's checkpoint to its own block number.
C18_FailedCheckpointWrite ==
    [][\A c \in Chains :
          /\ updates' # updates /\ pc' = pc =>
                \A to \in Blocks, p \in Progress :
                   /\ \A db \in DbOutcomes \ {"ok"} :
                         \/ checkpoint' = checkpoint /\ pc'[c] = "idle"
                         \/ ~OnUpdatePastBatchCompleted(c, to, p, db)
                   /\ \/ checkpoint'[c] = to
                      \/ ~OnUpdatePastBatchCompleted(c, to, p, "ok")
          /\ pc[c] = "checkpoint" =>
                /\ \A db \in DbOutcomes \ {"ok"} :
                      NewBlockCheckpoint(c, db) =>
                         checkpoint' = checkpoint /\ pc'[c] = "idle"
                /\ NewBlockCheckpoint(c, "ok") /\ ~scanning_past[c] =>
                      checkpoint'[c] = new_block[c] /\ pc'[c] = "idle"]_vars

\* A chain has been made live by a batch whose checkpoint write failed: it
\* has no checkpoint and its listener is ready for the next update.
C18_Witness ==
    \E c \in Chains :
        /\ Idle(c)
        /\ ~scanning_past[c]
        /\ checkpoint[c] = NoCheckpoint

\* C20: every listener starts in replay; a listener that is live stays live
\* whatever step is taken; and a PastBatchCompleted with progress 100 makes
\* the listener live whether its checkpoint write succeeds or fails.
C20_FlagMonotone ==
    /\ \A c \in Chains : scanning_past[c]
    /\ [][\A c \in Chains :
             /\ ~scanning_past[c] => ~scanning_past'[c]
             /\ updates' # updates /\ pc' = pc =>
                   \A to \in Blocks, db \in DbOutcomes :
                      \/ ~scanning_past'[c]
                      \/ ~OnUpdatePastBatchCompleted(c, to, 100, db)]_vars

\* A live listener has been handed a creation log and is joining its tasks,
\* still live.
C20_Witness ==
    \E c \in Chains :
        /\ ~scanning_past[c]
        /\ pc[c] = "join"
        /\ tasks[c] # EmptyBag

\* C19: a sweep leaves in the table every due row whose submission was not
\* confirmed, so that it is due again at any later time; and, blocks arriving
\* forever and the submission being confirmed at last, every row of the table
\* is removed in the end.
C19_FailedSubmissionRetried ==
    /\ [][\A c \in Chains :
             pc[c] = "sweep" =>
                \A db \in DbOutcomes, now \in Times :
                   \A answered \in SUBSET Due(active_oracles, c, now) :
                      HandleActiveOraclesAnswering(c, db, now, answered) =>
                         \A r \in Due(active_oracles, c, now) \ answered :
                            \A later \in {t \in Times : t >= now} :
                               r \in Due(active_oracles', c, later)]_vars
    /\ \A r \in Rows : BagIn(r, active_oracles) ~> ~BagIn(r, active_oracles)

\* A sweep of a chain has run and the chain's row with the earlier
\* measurement timestamp is still in the table.
C19_Witness ==
    \E c \in Chains :
        /\ pc[c] = "checkpoint"
        /\ HasRow(active_oracles, c, "A")
        /\ updates = 0

\* For each chain, what the extraction returns on the logs that do not decode
\* as a creation event or whose token's oracles() call fails.
NoCandidateParses ==
    [c \in Chains |->
        {ParseKpiTokenCreationLog(c, body, TemplateId) :
            body \in {b \in LogBodies : ~b.decodes \/ ~b.oracles_ok}}]

\* Nothing but the count of updates has changed and the listener of chain c
\* is ready for its next update.
NoOp(c) ==
    /\ tasks' = tasks
    /\ active_oracles' = active_oracles
    /\ checkpoint' = checkpoint
    /\ scanning_past' = scanning_past
    /\ pc'[c] = "idle"

\* C21: a NewLog without a block number, one that does not decode as a
\* creation event and one whose token's oracle list cannot be read start no
\* task, leave the table, the checkpoints and the flags as they were, and
\* leave the listener ready for its next update.
C21_NoCandidatesNoOp ==
    [][updates' # updates =>
          \A c \in Chains :
             /\ NoOp(c) \/ ~OnUpdateNewLogNoBlockNumber(c)
             /\ \A b \in Blocks : \A parsed \in NoCandidateParses[c] :
                   NoOp(c) \/ ~OnUpdateNewLog(c, b, parsed)]_vars

\* Every update handed to the listeners so far has left the tables, the
\* flags and the listeners as they were at the start.
C21_Witness ==
    /\ updates = MaxUpdates
    /\ \A c \in Chains :
          /\ Idle(c)
          /\ scanning_past[c]
          /\ checkpoint[c] = NoCheckpoint
    /\ active_oracles = EmptyBag

====
